---- MODULE Spec2Model ----
(***************************************************************************)
(* Remote-PiCam: the camera agent of src/picam.py (class NetworkPiCam)     *)
(* driven by the orchestrator of src/main.py.                              *)
(*                                                                         *)
(* One action per call the orchestrator makes (connect is split at its     *)
(* blocking wait), plus the peer's actions on the discovery channel.       *)
(***************************************************************************)
EXTENDS Integers, Sequences, FiniteSets, TLC

VARIABLES
    pc,             \* position of main.py: connect, wait, while, send, service, done, crashed
    pan_tilting,    \* self._pan_tilting
    connected,      \* self._connected
    settings,       \* self.settings, the current snapshot
    cam,            \* parameters last applied to the PiCamera (self._cam.<attr>)
    driver,         \* self._driver: "None", "created", "exited"
    servo,          \* angles last commanded on the PCA9685, by channel
    client_socket,  \* self._client_socket: "None", "created", "connected", "closed"
    connection,     \* self._connection: "None", "open", "closed"
    wire,           \* bytes written to self._connection, in order
    sent,           \* payloads of the frames send_image sent successfully, in capture order
    inbox,          \* message pending on the discovery channel
    result,         \* the message service_settings received last
    reply,          \* the reply sent last on the discovery channel
    received,       \* settings messages received by service_settings
    replied,        \* replies sent by service_settings
    connect_result, \* what the last connect() call returned: "none", "False", "True"
    send_result     \* what the last send_image() call returned: "none", "False", "True"

vars == <<pc, pan_tilting, connected, settings, cam, driver, servo, client_socket,
          connection, wire, sent, inbox, result, reply, received, replied, connect_result,
          send_result>>

(***************************************************************************)
(* Bounds of the model.                                                    *)
(***************************************************************************)
MaxFrames == 2
MaxRequests == 2

(***************************************************************************)
(* The settings snapshot of __init__.  A resolution is <<kind, w, h>>:     *)
(* kind "str" for a string "WxH", kind "tuple" for a Python tuple (w, h).  *)
(***************************************************************************)
AwbModes ==
    {"off", "auto", "sunlight", "cloudy", "shade", "tungsten", "fluorescent",
     "incandescent", "flash", "horizon"}

Effects ==
    {"none", "negative", "solarize", "sketch", "denoise", "emboss", "oilpaint",
     "hatch", "gpen", "pastel", "watercolor", "film", "blur", "saturation",
     "colorswap", "washedout", "posterise", "colorpoint", "colorbalance",
     "cartoon", "deinterlace1", "deinterlace2"}

IsoValues == {0, 100, 200, 320, 400, 500, 640, 800}

Resolutions ==
    {  <<"str", 128, 96>>, <<"str", 160, 120>>, <<"str", 160, 144>>, <<"str", 176, 144>>,
       <<"str", 180, 132>>, <<"str", 180, 135>>, <<"str", 192, 144>>, <<"str", 234, 60>>,
       <<"str", 256, 192>>, <<"str", 320, 200>>, <<"str", 320, 240>>, <<"str", 320, 288>>,
       <<"str", 320, 400>>, <<"str", 352, 288>>, <<"str", 352, 240>>, <<"str", 384, 256>>,
       <<"str", 384, 288>>, <<"str", 392, 72>>, <<"str", 400, 300>>, <<"str", 460, 55>>,
       <<"str", 480, 320>>, <<"str", 468, 32>>, <<"str", 468, 60>>, <<"str", 512, 342>>,
       <<"str", 512, 384>>, <<"str", 544, 372>>, <<"str", 640, 350>>, <<"str", 640, 480>>,
       <<"str", 640, 576>>, <<"str", 704, 576>>, <<"str", 720, 350>>, <<"str", 720, 400>>,
       <<"str", 720, 480>>, <<"str", 720, 483>>, <<"str", 720, 484>>, <<"str", 720, 486>>,
       <<"str", 720, 540>>, <<"str", 720, 576>>, <<"str", 729, 348>>, <<"str", 768, 576>>,
       <<"str", 800, 600>>, <<"str", 832, 624>>, <<"str", 856, 480>>, <<"str", 896, 600>>,
       <<"str", 960, 720>>, <<"str", 1024, 576>>, <<"str", 1024, 768>>, <<"str", 1080, 720>>,
       <<"str", 1152, 768>>, <<"str", 1152, 864>>, <<"str", 1152, 870>>, <<"str", 1152, 900>>,
       <<"str", 1280, 720>>, <<"str", 1280, 800>>, <<"str", 1280, 854>>, <<"str", 1280, 960>>,
       <<"str", 1280, 992>>, <<"str", 1280, 1024>>, <<"str", 1360, 766>>, <<"str", 1365, 768>>,
       <<"str", 1366, 768>>, <<"str", 1365, 1024>>, <<"str", 1400, 788>>, <<"str", 1400, 1050>>,
       <<"str", 1440, 900>>, <<"str", 1520, 856>>, <<"str", 1536, 1536>>, <<"str", 1600, 900>>,
       <<"str", 1600, 1024>>, <<"str", 1600, 1200>>, <<"str", 1792, 1120>>, <<"str", 1792, 1344>>,
       <<"str", 1824, 1128>>, <<"str", 1824, 1368>>, <<"str", 1856, 1392>>, <<"str", 1920, 1080>>,
       <<"str", 1920, 1200>>, <<"str", 1920, 1440>>, <<"str", 2000, 1280>>, <<"str", 2048, 1152>>,
       <<"str", 2048, 1536>>, <<"str", 2048, 2048>>, <<"str", 2500, 1340>>, <<"str", 2560, 1600>>,
       <<"str", 3072, 2252>>, <<"str", 3600, 2400>>  }

InitSettings(pan_tilt) ==
    [ awb_mode   |-> [selected |-> "auto", available |-> AwbModes],
      brightness |-> [min |-> 0, max |-> 100, value |-> 50],
      contrast   |-> [min |-> -100, max |-> 100, value |-> 0],
      effect     |-> [selected |-> "none", available |-> Effects],
      iso        |-> [selected |-> 0, available |-> IsoValues],
      resolution |-> [selected |-> <<"tuple", 720, 480>>, available |-> Resolutions],
      saturation |-> [min |-> -100, max |-> 100, value |-> 0],
      servos     |-> [enable |-> pan_tilt,
                      pan    |-> [min |-> 0, max |-> 180, value |-> 90],
                      tilt   |-> [min |-> 0, max |-> 60, value |-> 30]] ]

(***************************************************************************)
(* Messages of the discovery channel.                                      *)
(***************************************************************************)
NoSnapshot == [none |-> TRUE]
NoMsg == [type |-> "none", body |-> NoSnapshot]
ContactMsg == [type |-> "contact", body |-> NoSnapshot]
SettingsMsg(r) == [type |-> "settings", body |-> r]

NoReply == [kind |-> "none", accepted |-> FALSE, snapshot |-> NoSnapshot]
HandshakeReply(s) == [kind |-> "handshake", accepted |-> TRUE, snapshot |-> s]
SettingsReply(acc, s) == [kind |-> "settings", accepted |-> acc, snapshot |-> s]

(***************************************************************************)
(* The camera as main.py hands it over, and the servo hat before any       *)
(* command.                                                                *)
(***************************************************************************)
NoAngle == -1

InitCam ==
    [ awb_mode |-> "auto", brightness |-> 50, contrast |-> 0, image_effect |-> "none",
      iso |-> 0, resolution |-> <<"tuple", 720, 480>>, saturation |-> 0 ]

InitServo == [pan |-> NoAngle, tilt |-> NoAngle]

Init ==
    /\ pc = "connect"
    /\ pan_tilting \in BOOLEAN
    /\ connected = FALSE
    /\ settings = InitSettings(pan_tilting)
    /\ cam = InitCam
    /\ driver = "None"
    /\ servo = InitServo
    /\ client_socket = "None"
    /\ connection = "None"
    /\ wire = <<>>
    /\ sent = <<>>
    /\ inbox = NoMsg
    /\ result = NoMsg
    /\ reply = NoReply
    /\ received = 0
    /\ replied = 0
    /\ connect_result = "none"
    /\ send_result = "none"

(***************************************************************************)
(* The hardware collaborators.  The PiCamera attribute setters raise on a  *)
(* value outside the ranges and choices the snapshot of __init__ declares  *)
(* for the attribute; a resolution may be a tuple or a "WxH" string.  The  *)
(* servo driver rejects an angle outside the range declared for the servo. *)
(***************************************************************************)
CamAttrs ==
    <<"awb_mode", "brightness", "contrast", "image_effect", "iso", "resolution",
      "saturation">>

CamAccepts(attr, v) ==
    CASE attr = "awb_mode"     -> v \in AwbModes
      [] attr = "brightness"   -> 0 <= v /\ v <= 100
      [] attr = "contrast"     -> -100 <= v /\ v <= 100
      [] attr = "image_effect" -> v \in Effects
      [] attr = "iso"          -> v \in IsoValues
      [] attr = "resolution"   -> <<"str", v[2], v[3]>> \in Resolutions
      [] attr = "saturation"   -> -100 <= v /\ v <= 100

DriverAccepts(channel, angle) ==
    IF channel = 1 THEN 0 <= angle /\ angle <= 180
                   ELSE 0 <= angle /\ angle <= 60

(***************************************************************************)
(* write_settings(), lines 322-331: the seven camera attributes are        *)
(* assigned in order, then (pan/tilt enabled) channel 1 gets the pan angle *)
(* and channel 0 the tilt angle.  The first assignment that raises ends    *)
(* the call; the ones before it stay applied.                              *)
(***************************************************************************)
Pushed(s, attr) ==
    CASE attr = "awb_mode"     -> s.awb_mode.selected
      [] attr = "brightness"   -> s.brightness.value
      [] attr = "contrast"     -> s.contrast.value
      [] attr = "image_effect" -> s.effect.selected
      [] attr = "iso"          -> s.iso.selected
      [] attr = "resolution"   -> s.resolution.selected
      [] attr = "saturation"   -> s.saturation.value

Min(S) == CHOOSE x \in S : \A y \in S : x <= y

FirstRejected(s) ==
    LET bad == {i \in 1..Len(CamAttrs) : ~CamAccepts(CamAttrs[i], Pushed(s, CamAttrs[i]))}
    IN  IF bad = {} THEN Len(CamAttrs) + 1 ELSE Min(bad)

AttrIndex(attr) == CHOOSE i \in 1..Len(CamAttrs) : CamAttrs[i] = attr

WriteCam(s, c) ==
    [attr \in DOMAIN c |->
        IF AttrIndex(attr) < FirstRejected(s) THEN Pushed(s, attr) ELSE c[attr]]

WriteServos(s, sv, pan_tilt, drv) ==
    IF ~pan_tilt THEN [servo |-> sv, raised |-> FALSE]
    ELSE IF drv = "None" THEN [servo |-> sv, raised |-> TRUE]
    ELSE IF ~DriverAccepts(1, s.servos.pan.value) THEN [servo |-> sv, raised |-> TRUE]
    ELSE IF ~DriverAccepts(0, s.servos.tilt.value)
         THEN [servo |-> [sv EXCEPT !.pan = s.servos.pan.value], raised |-> TRUE]
    ELSE [servo |-> [pan |-> s.servos.pan.value, tilt |-> s.servos.tilt.value],
          raised |-> FALSE]

WriteSettings(s, c, sv, pan_tilt, drv) ==
    IF FirstRejected(s) <= Len(CamAttrs)
    THEN [cam |-> WriteCam(s, c), servo |-> sv, raised |-> TRUE]
    ELSE LET w == WriteServos(s, sv, pan_tilt, drv)
         IN  [cam |-> WriteCam(s, c), servo |-> w.servo, raised |-> w.raised]

(***************************************************************************)
(* disconnect(), lines 339-344.  self._connection.close() flushes the      *)
(* buffered writer and raises OSError when the flush fails; the lines      *)
(* after it are then skipped.                                              *)
(***************************************************************************)
Disconnect(closeRaises, sock, drv, conn, pan_tilt) ==
    IF closeRaises
    THEN [connection |-> "closed", client_socket |-> sock, connected |-> conn,
          driver |-> drv, raised |-> TRUE]
    ELSE [connection |-> "closed", client_socket |-> "closed", connected |-> FALSE,
          driver |-> IF pan_tilt THEN "exited" ELSE drv, raised |-> FALSE]

(***************************************************************************)
(* Frame framing, lines 267-270: struct.pack("<L", n) is the 4-byte        *)
(* little-endian unsigned encoding of n; the payload follows.  Unpack and  *)
(* DecodeFrames are the receiver's side of the wire format.                *)
(***************************************************************************)
PackBigEndian(n) ==
    << (n \div 16777216) % 256, (n \div 65536) % 256, (n \div 256) % 256, n % 256 >>

Pack(n) ==
    << n % 256, (n \div 256) % 256, (n \div 65536) % 256, (n \div 16777216) % 256 >>

Unpack(b) == b[1] + 256 * b[2] + 65536 * b[3] + 16777216 * b[4]

RECURSIVE DecodeFrames(_)
DecodeFrames(w) ==
    IF Len(w) < 4 THEN [frames |-> <<>>, rest |-> w]
    ELSE LET n == Unpack(SubSeq(w, 1, 4))
         IN  IF Len(w) < 4 + n THEN [frames |-> <<>>, rest |-> w]
             ELSE LET d == DecodeFrames(SubSeq(w, 4 + n + 1, Len(w)))
                  IN  [frames |-> <<SubSeq(w, 5, 4 + n)>> \o d.frames, rest |-> d.rest]

(***************************************************************************)
(* Inputs: the JPEG payloads a capture may produce and the settings        *)
(* requests the peer may submit (edits of the snapshot it was handed).     *)
(***************************************************************************)
PayloadLens == {0, 258}

Payload(n) == [i \in 1..n |-> (41 * i) % 256]

Payloads == {Payload(n) : n \in PayloadLens}

BaseRequest(pan_tilt) ==
    [InitSettings(pan_tilt) EXCEPT !.resolution.selected = <<"str", 720, 480>>]

Requests(pan_tilt) ==
    LET b == BaseRequest(pan_tilt)
    IN  { [b EXCEPT !.brightness.value = 80],
          [b EXCEPT !.iso.selected = 400, !.effect.selected = "negative",
                    !.resolution.selected = <<"str", 1280, 720>>],
          [b EXCEPT !.awb_mode.selected = "sunlight", !.brightness.value = 150],
          [b EXCEPT !.servos.pan.value = 120],
          [b EXCEPT !.servos.tilt.value = 45],
          [b EXCEPT !.servos.pan.value = 120, !.servos.tilt.value = 90] }

(***************************************************************************)
(* connect(), lines 229-233: nw0.advertise either raises                   *)
(* SocketTimedOutError (connect returns False and main calls it again) or  *)
(* returns the service address, and connect goes on to line 235.           *)
(***************************************************************************)
\* A variant of AdvertiseTimeout in which connect creates the servo driver
\* before it advertises.
AdvertiseTimeoutLeavesDriver ==
    /\ pc = "connect"
    /\ connect_result' = "False"
    /\ driver' = IF pan_tilting THEN "created" ELSE driver
    /\ UNCHANGED <<pc, pan_tilting, connected, settings, cam, servo,
                   client_socket, connection, wire, sent, inbox, result, reply,
                   received, replied, send_result>>

AdvertiseTimeout ==
    /\ pc = "connect"
    /\ connect_result' = "False"
    /\ UNCHANGED <<pc, pan_tilting, connected, settings, cam, driver, servo,
                   client_socket, connection, wire, sent, inbox, result, reply,
                   received, replied, send_result>>

Advertise ==
    /\ pc = "connect"
    /\ pc' = "wait"
    /\ UNCHANGED <<pan_tilting, connected, settings, cam, driver, servo,
                   client_socket, connection, wire, sent, inbox, result, reply,
                   received, replied, connect_result, send_result>>

(***************************************************************************)
(* The peer: one contact message once the service is advertised, then      *)
(* settings requests, each sent when the previous one has been answered    *)
(* (request/reply on the discovery channel).                               *)
(***************************************************************************)
PeerContact ==
    /\ pc = "wait"
    /\ inbox = NoMsg
    /\ inbox' = ContactMsg
    /\ UNCHANGED <<pc, pan_tilting, connected, settings, cam, driver, servo,
                   client_socket, connection, wire, sent, result, reply,
                   received, replied, connect_result, send_result>>

PeerRequest ==
    /\ pc \in {"while", "send", "service"}
    /\ inbox = NoMsg
    /\ received < MaxRequests
    /\ \E r \in Requests(pan_tilting) : inbox' = SettingsMsg(r)
    /\ UNCHANGED <<pc, pan_tilting, connected, settings, cam, driver, servo,
                   client_socket, connection, wire, sent, result, reply,
                   received, replied, connect_result, send_result>>

(***************************************************************************)
(* connect(), lines 235-247, from the blocking wait_for_message_from on:   *)
(* it returns only when a message has arrived.  The socket connect of line *)
(* 243 may raise; the exception leaves connect and ends main.py.           *)
(***************************************************************************)
\* A variant of ConnectHandshake that sets self._connected before the frame
\* socket is connected.
ConnectHandshakeEager ==
    /\ pc = "wait"
    /\ inbox.type = "contact"
    /\ inbox' = NoMsg
    /\ reply' = HandshakeReply(settings)
    /\ driver' = IF pan_tilting THEN "created" ELSE driver
    /\ LET w == WriteSettings(settings, cam, servo, pan_tilting, driver')
       IN  /\ cam' = w.cam
           /\ servo' = w.servo
           /\ connected' = TRUE
           /\ \E socketConnects \in BOOLEAN :
                IF socketConnects
                THEN /\ client_socket' = "connected"
                     /\ connection' = "open"
                     /\ connect_result' = "True"
                     /\ pc' = "while"
                ELSE /\ client_socket' = "created"
                     /\ pc' = "crashed"
                     /\ UNCHANGED <<connection, connect_result>>
    /\ UNCHANGED <<pan_tilting, settings, wire, sent, result, received, replied,
                   send_result>>

ConnectHandshake ==
    /\ pc = "wait"
    /\ inbox.type = "contact"
    /\ inbox' = NoMsg
    /\ reply' = HandshakeReply(settings)
    /\ driver' = IF pan_tilting THEN "created" ELSE driver
    /\ LET w == WriteSettings(settings, cam, servo, pan_tilting, driver')
       IN  /\ cam' = w.cam
           /\ servo' = w.servo
           /\ \E socketConnects \in BOOLEAN :
                IF w.raised
                THEN /\ pc' = "crashed"
                     /\ UNCHANGED <<client_socket, connection, connected,
                                    connect_result>>
                ELSE IF socketConnects
                THEN /\ client_socket' = "connected"
                     /\ connection' = "open"
                     /\ connected' = TRUE
                     /\ connect_result' = "True"
                     /\ pc' = "while"
                ELSE /\ client_socket' = "created"
                     /\ pc' = "crashed"
                     /\ UNCHANGED <<connection, connected, connect_result>>
    /\ UNCHANGED <<pan_tilting, settings, wire, sent, result, received, replied,
                   send_result>>

\* The loop of main.py with its two calls in the other order.
WhileTestPollsFirst ==
    /\ pc = "while"
    /\ pc' = IF connected THEN "service" ELSE "done"
    /\ UNCHANGED <<pan_tilting, connected, settings, cam, driver, servo,
                   client_socket, connection, wire, sent, inbox, result, reply,
                   received, replied, connect_result, send_result>>

(***************************************************************************)
(* main.py line 38: while cam.is_connected.                                *)
(***************************************************************************)
WhileTest ==
    /\ pc = "while"
    /\ pc' = IF connected THEN "send" ELSE "done"
    /\ UNCHANGED <<pan_tilting, connected, settings, cam, driver, servo,
                   client_socket, connection, wire, sent, inbox, result, reply,
                   received, replied, connect_result, send_result>>

(***************************************************************************)
(* send_image(), lines 255-283.  outcome says where the try block raised:  *)
(*   ok        nothing raised, the frame was written;                      *)
(*   capture   capture or image processing raised (lines 259-266);         *)
(*   prefix    the write of the length prefix raised (line 267);           *)
(*   flush     the prefix was written and the flush raised (line 268);     *)
(*   payload   the write of the payload raised after cut of its bytes      *)
(*             (line 270).                                                 *)
(* On a failure disconnect() is called, an OSError from it is swallowed,   *)
(* and self._connected is cleared.                                         *)
(***************************************************************************)
Outcomes == {"ok", "capture", "prefix", "flush", "payload"}

Cuts(p) == {k \in {0, 1, Len(p) - 1} : 0 <= k /\ k < Len(p)}

\* The value send_image returns: True from line 273, False from line 283.
SendReturnsAlwaysTrue(outcome) == "True"

SendReturns(outcome) == IF outcome = "ok" THEN "True" ELSE "False"

\* A variant of Written whose length prefix counts one byte too many.
WrittenOffByOne(outcome, p, cut) ==
    CASE outcome = "ok"      -> Pack(Len(p) + 1) \o p
      [] outcome = "capture" -> <<>>
      [] outcome = "prefix"  -> <<>>
      [] outcome = "flush"   -> Pack(Len(p) + 1)
      [] outcome = "payload" -> Pack(Len(p) + 1) \o SubSeq(p, 1, cut)

Written(outcome, p, cut) ==
    CASE outcome = "ok"      -> Pack(Len(p)) \o p
      [] outcome = "capture" -> <<>>
      [] outcome = "prefix"  -> <<>>
      [] outcome = "flush"   -> Pack(Len(p))
      [] outcome = "payload" -> Pack(Len(p)) \o SubSeq(p, 1, cut)

SendImage ==
    /\ pc = "send"
    /\ IF ~connected
       THEN /\ pc' = "crashed"
            /\ UNCHANGED <<connected, driver, client_socket, connection, wire, sent,
                           send_result>>
       ELSE \E outcome \in Outcomes, p \in Payloads, closeRaises \in BOOLEAN :
              \E cut \in IF outcome = "payload" THEN Cuts(p) ELSE {0} :
                /\ outcome = "ok" => Len(sent) < MaxFrames /\ ~closeRaises
                /\ wire' = wire \o Written(outcome, p, cut)
                /\ send_result' = SendReturns(outcome)
                /\ pc' = "service"
                /\ IF outcome = "ok"
                   THEN /\ sent' = Append(sent, p)
                        /\ UNCHANGED <<connected, driver, client_socket, connection>>
                   ELSE LET d == Disconnect(closeRaises, client_socket, driver,
                                            connected, pan_tilting)
                        IN  /\ connection' = d.connection
                            /\ client_socket' = d.client_socket
                            /\ driver' = d.driver
                            /\ connected' = FALSE
                            /\ UNCHANGED sent
    /\ UNCHANGED <<pan_tilting, settings, cam, servo, inbox, result, reply,
                   received, replied, connect_result>>

(***************************************************************************)
(* service_settings(), lines 291-314.  ServiceMessage is the body of       *)
(* "if result is not None": the snapshot, the hardware state and the       *)
(* replies sent, for the request r.                                        *)
(***************************************************************************)
\* Variants of ServiceMessage, each with one plausible slip:
\* the gate's reply carries the request instead of the current snapshot;
\* the gate checks the pan value only; the request is applied but never
\* stored (line 306 missing); a failed apply is logged but not answered.
ServiceMessageGateEchoes(r, s, c, sv, pan_tilt, drv) ==
    IF ~pan_tilt /\ (s.servos.pan.value # r.servos.pan.value
                      \/ s.servos.tilt.value # r.servos.tilt.value)
    THEN [settings |-> s, cam |-> c, servo |-> sv,
          replies |-> <<SettingsReply(FALSE, r)>>]
    ELSE LET w == WriteSettings(r, c, sv, pan_tilt, drv)
         IN  [settings |-> r, cam |-> w.cam, servo |-> w.servo,
              replies |-> <<SettingsReply(~w.raised, r)>>]

ServiceMessagePanGateOnly(r, s, c, sv, pan_tilt, drv) ==
    IF ~pan_tilt /\ s.servos.pan.value # r.servos.pan.value
    THEN [settings |-> s, cam |-> c, servo |-> sv,
          replies |-> <<SettingsReply(FALSE, s)>>]
    ELSE LET w == WriteSettings(r, c, sv, pan_tilt, drv)
         IN  [settings |-> r, cam |-> w.cam, servo |-> w.servo,
              replies |-> <<SettingsReply(~w.raised, r)>>]

ServiceMessageNotStored(r, s, c, sv, pan_tilt, drv) ==
    IF ~pan_tilt /\ (s.servos.pan.value # r.servos.pan.value
                      \/ s.servos.tilt.value # r.servos.tilt.value)
    THEN [settings |-> s, cam |-> c, servo |-> sv,
          replies |-> <<SettingsReply(FALSE, s)>>]
    ELSE LET w == WriteSettings(r, c, sv, pan_tilt, drv)
         IN  [settings |-> s, cam |-> w.cam, servo |-> w.servo,
              replies |-> <<SettingsReply(~w.raised, s)>>]

ServiceMessageSilentFailure(r, s, c, sv, pan_tilt, drv) ==
    IF ~pan_tilt /\ (s.servos.pan.value # r.servos.pan.value
                      \/ s.servos.tilt.value # r.servos.tilt.value)
    THEN [settings |-> s, cam |-> c, servo |-> sv,
          replies |-> <<SettingsReply(FALSE, s)>>]
    ELSE LET w == WriteSettings(r, c, sv, pan_tilt, drv)
         IN  [settings |-> r, cam |-> w.cam, servo |-> w.servo,
              replies |-> IF w.raised THEN <<>> ELSE <<SettingsReply(TRUE, r)>>]

ServiceMessage(r, s, c, sv, pan_tilt, drv) ==
    IF ~pan_tilt /\ s.servos.pan.value # r.servos.pan.value
    THEN [settings |-> s, cam |-> c, servo |-> sv,
          replies |-> <<SettingsReply(FALSE, s)>>]
    ELSE IF ~pan_tilt /\ s.servos.tilt.value # r.servos.tilt.value
    THEN [settings |-> s, cam |-> c, servo |-> sv,
          replies |-> <<SettingsReply(FALSE, s)>>]
    ELSE LET w == WriteSettings(r, c, sv, pan_tilt, drv)
         IN  [settings |-> r, cam |-> w.cam, servo |-> w.servo,
              replies |-> <<SettingsReply(~w.raised, r)>>]

\* Variants of ServiceSettings: one tears the session down when the update
\* was not accepted; one polls with the blocking wait of line 235.
ServiceSettingsDisconnects ==
    /\ pc = "service"
    /\ pc' = "while"
    /\ IF inbox.type = "none"
       THEN UNCHANGED <<settings, cam, servo, inbox, result, reply, received, replied,
                        connected, driver, client_socket, connection>>
       ELSE LET o == ServiceMessage(inbox.body, settings, cam, servo, pan_tilting, driver)
                d == Disconnect(FALSE, client_socket, driver, connected, pan_tilting)
                rejected == ~o.replies[1].accepted
            IN  /\ result' = inbox
                /\ inbox' = NoMsg
                /\ received' = received + 1
                /\ settings' = o.settings
                /\ cam' = o.cam
                /\ servo' = o.servo
                /\ reply' = o.replies[1]
                /\ replied' = replied + 1
                /\ connected' = IF rejected THEN d.connected ELSE connected
                /\ driver' = IF rejected THEN d.driver ELSE driver
                /\ client_socket' = IF rejected THEN d.client_socket ELSE client_socket
                /\ connection' = IF rejected THEN d.connection ELSE connection
    /\ UNCHANGED <<pan_tilting, wire, sent, connect_result, send_result>>

ServiceSettingsBlocking ==
    /\ pc = "service"
    /\ inbox.type # "none"
    /\ pc' = "while"
    /\ LET o == ServiceMessage(inbox.body, settings, cam, servo, pan_tilting, driver)
       IN  /\ result' = inbox
           /\ inbox' = NoMsg
           /\ received' = received + 1
           /\ settings' = o.settings
           /\ cam' = o.cam
           /\ servo' = o.servo
           /\ reply' = o.replies[1]
           /\ replied' = replied + 1
    /\ UNCHANGED <<pan_tilting, connected, driver, client_socket, connection, wire,
                   sent, connect_result, send_result>>

ServiceSettings ==
    /\ pc = "service"
    /\ pc' = "while"
    /\ IF inbox.type = "none"
       THEN UNCHANGED <<settings, cam, servo, inbox, result, reply, received, replied>>
       ELSE LET o == ServiceMessage(inbox.body, settings, cam, servo, pan_tilting, driver)
            IN  /\ result' = inbox
                /\ inbox' = NoMsg
                /\ received' = received + 1
                /\ settings' = o.settings
                /\ cam' = o.cam
                /\ servo' = o.servo
                /\ reply' = IF o.replies = <<>> THEN reply ELSE o.replies[Len(o.replies)]
                /\ replied' = replied + Len(o.replies)
    /\ UNCHANGED <<pan_tilting, connected, driver, client_socket, connection, wire,
                   sent, connect_result, send_result>>

Next ==
    \/ AdvertiseTimeout
    \/ Advertise
    \/ PeerContact
    \/ ConnectHandshake
    \/ WhileTest
    \/ SendImage
    \/ ServiceSettings
    \/ PeerRequest

Spec == Init /\ [][Next]_vars

(***************************************************************************)
(* The orchestrator is a running program: whenever one of its steps can be *)
(* taken, it is taken.  The peer is under no obligation.                   *)
(***************************************************************************)
MainStep == AdvertiseTimeout \/ Advertise \/ ConnectHandshake \/ WhileTest
              \/ SendImage \/ ServiceSettings

FairSpec == Spec /\ WF_vars(MainStep)

(***************************************************************************)
(* Vocabulary of the properties.                                           *)
(***************************************************************************)
\* service_settings is about to receive the pending settings message.
Receiving == pc = "service" /\ inbox.type = "settings"

\* The request touches a servo value the gate protects.
GateViolates(r, s) ==
    \/ s.servos.pan.value # r.servos.pan.value
    \/ s.servos.tilt.value # r.servos.tilt.value

Bounded(b) == b.min <= b.value /\ b.value <= b.max
Enumerated(e) == e.selected \in e.available

WellFormed(s) ==
    /\ Enumerated(s.awb_mode) /\ Enumerated(s.effect) /\ Enumerated(s.iso)
    /\ Enumerated(s.resolution)
    /\ Bounded(s.brightness) /\ Bounded(s.contrast) /\ Bounded(s.saturation)
    /\ Bounded(s.servos.pan) /\ Bounded(s.servos.tilt)

\* The request keeps the bounds and choices of the session's settings.
SameBounds(r, s) ==
    /\ r.awb_mode.available = s.awb_mode.available
    /\ r.effect.available = s.effect.available
    /\ r.iso.available = s.iso.available
    /\ r.resolution.available = s.resolution.available
    /\ \A f \in {"brightness", "contrast", "saturation"} :
          r[f].min = s[f].min /\ r[f].max = s[f].max
    /\ \A f \in {"pan", "tilt"} :
          r.servos[f].min = s.servos[f].min /\ r.servos[f].max = s.servos[f].max

ValidRequest(r, s, pan_tilt) ==
    /\ SameBounds(r, s)
    /\ WellFormed(r)
    /\ ~pan_tilt => ~GateViolates(r, s)

\* The session was Connected and no longer is.
Disconnected == connect_result = "True" /\ ~connected

(***************************************************************************)
(* C1: whenever service_settings receives a request whose application      *)
(* fails (write_settings raises), the reply is (False, S_prev) and the     *)
(* current snapshot after the call is S_prev, the snapshot before it.      *)
(***************************************************************************)
C1_AllOrNothing ==
    [][ ( /\ Receiving
          /\ pan_tilting \/ ~GateViolates(inbox.body, settings)
          /\ WriteSettings(inbox.body, cam, servo, pan_tilting, driver).raised )
        => /\ reply' = SettingsReply(FALSE, settings)
           /\ settings' = settings ]_vars

(***************************************************************************)
(* C2: with pan/tilt disabled, a request whose pan or tilt value differs   *)
(* from the current snapshot's is answered (False, current snapshot), the  *)
(* snapshot is unchanged and nothing is pushed to the camera or driver;    *)
(* the snapshot being unchanged, the same holds of every repetition.       *)
(***************************************************************************)
C2_GateRejection ==
    [][ (Receiving /\ ~pan_tilting /\ GateViolates(inbox.body, settings))
        => /\ reply' = SettingsReply(FALSE, settings)
           /\ replied' = replied + 1
           /\ settings' = settings
           /\ cam' = cam /\ servo' = servo /\ driver' = driver ]_vars

C2_Witness ==
    /\ ~pan_tilting
    /\ replied = 2
    /\ result.type = "settings" /\ GateViolates(result.body, settings)
    /\ reply = SettingsReply(FALSE, settings)
    /\ settings = InitSettings(FALSE)

(***************************************************************************)
(* C3: every valid request (values within bounds, selections available,    *)
(* servo values untouched when pan/tilt is disabled) is answered           *)
(* (True, R) and R is the current snapshot after the call.                 *)
(***************************************************************************)
C3_ValidAccepted ==
    [][ (Receiving /\ ValidRequest(inbox.body, settings, pan_tilting))
        => /\ reply' = SettingsReply(TRUE, inbox.body)
           /\ settings' = inbox.body ]_vars

C3_Witness ==
    /\ result.type = "settings"
    /\ result.body.brightness.value = 80
    /\ reply = SettingsReply(TRUE, result.body)
    /\ settings = result.body
    /\ received = 2

(***************************************************************************)
(* C4: once a send_image call has failed and the session is Disconnected,  *)
(* no frame is sent and no settings message is received, applied or        *)
(* answered in any later step.                                             *)
(***************************************************************************)
C4_DisconnectedTerminal ==
    [][ Disconnected
        => /\ wire' = wire /\ sent' = sent
           /\ received' = received /\ replied' = replied /\ reply' = reply
           /\ settings' = settings /\ cam' = cam /\ servo' = servo ]_vars

(***************************************************************************)
(* C5: in every state in which the session has been Connected and is no    *)
(* longer, the frame channel and its socket are closed and, with pan/tilt  *)
(* enabled, the driver has been released.                                  *)
(***************************************************************************)
C5_ReleasedWhenDisconnected ==
    Disconnected
    => /\ connection = "closed"
       /\ client_socket = "closed"
       /\ pan_tilting => driver = "exited"

(***************************************************************************)
(* C6: every settings message received has had exactly one reply when      *)
(* service_settings returns: replies and received messages stay level,     *)
(* each call that receives one message sends one reply.                    *)
(***************************************************************************)
C6_OneReplyPerMessage ==
    /\ replied = received
    /\ received > 0 => reply.kind = "settings"

C6_Witness ==
    /\ received = 2 /\ replied = 2
    /\ reply.kind = "settings" /\ ~reply.accepted
    /\ pan_tilting

(***************************************************************************)
(* C7: a connect call always terminates: whenever connect is waiting at    *)
(* line 235 it eventually leaves the wait, peer or no peer.                *)
(***************************************************************************)
C7_ConnectTerminates == (pc = "wait") ~> (pc # "wait")

(***************************************************************************)
(* C8: the frame channel decodes (4 bytes little-endian as N, then N       *)
(* bytes) to the payloads sent successfully, in capture order; while the   *)
(* session is Connected nothing else is on the channel.                    *)
(***************************************************************************)
C8_FramingRoundTrip ==
    LET d == DecodeFrames(wire)
    IN  /\ Len(d.frames) >= Len(sent)
        /\ SubSeq(d.frames, 1, Len(sent)) = sent
        /\ connected => d.frames = sent /\ d.rest = <<>>

C8_Witness ==
    /\ connected
    /\ Len(sent) = 2
    /\ Len(sent[1]) > 255 /\ Len(sent[2]) = 0

(***************************************************************************)
(* C9: once an update has been accepted, the current snapshot is           *)
(* well-formed (selected in available, min <= value <= max), and it still  *)
(* is after the next update, whatever its outcome.                         *)
(***************************************************************************)
C9_WellFormedAfterApply ==
    [][ (reply.kind = "settings" /\ reply.accepted)
        => WellFormed(settings) /\ WellFormed(settings') ]_vars

(***************************************************************************)
(* C10: with pan/tilt disabled, the snapshot's pan and tilt values are the *)
(* initial ones in every reachable state, and the driver is never created, *)
(* commanded or released.                                                  *)
(***************************************************************************)
C10_ServosGated ==
    ~pan_tilting
    => /\ settings.servos.pan.value = InitSettings(FALSE).servos.pan.value
       /\ settings.servos.tilt.value = InitSettings(FALSE).servos.tilt.value
       /\ driver = "None"
       /\ servo = InitServo

C10_Witness ==
    /\ ~pan_tilting
    /\ pc = "done"
    /\ received = 2
    /\ result.type = "settings"
    /\ result.body.servos.tilt.value # settings.servos.tilt.value

(***************************************************************************)
(* C11: while the session is Connected every cycle of the orchestrator is  *)
(* one send_image followed by one service_settings: the loop test of a     *)
(* connected session leads to a send, a send leads to a poll, a poll leads *)
(* back to the loop test; the frame channel changes only in a send and the *)
(* discovery channel is read and answered only in the poll after it.       *)
(***************************************************************************)
C11_SendThenPoll ==
    [][ /\ (pc = "while" /\ connected /\ pc' # pc) => pc' = "send"
        /\ (pc = "send" /\ connected /\ pc' # pc) => pc' = "service"
        /\ (pc = "service" /\ pc' # pc) => pc' = "while"
        /\ (wire' # wire \/ sent' # sent \/ send_result' # send_result)
              => pc = "send" /\ pc' = "service"
        /\ (received' # received \/ replied' # replied \/ settings' # settings)
              => pc = "service" /\ pc' = "while" ]_vars

C11_Witness ==
    /\ connected
    /\ pc = "while"
    /\ Len(sent) = 2
    /\ received = 2

(***************************************************************************)
(* C12: no service_settings call, whatever its outcome, changes the        *)
(* connection state, closes the frame channel or releases the actuator; a  *)
(* session that was Connected before the call is Connected after it and    *)
(* goes on to the loop test and the next send_image.                       *)
(***************************************************************************)
C12_UpdateKeepsSession ==
    [][ /\ pc = "service"
           => /\ connected' = connected
              /\ connection' = connection
              /\ client_socket' = client_socket
              /\ driver' = driver
              /\ connect_result' = connect_result
              /\ pc' \in {"service", "while"}
        /\ (pc = "while" /\ connected /\ pc' # pc)
           => pc' = "send" /\ connected' ]_vars

C12_Witness ==
    /\ pc = "send"
    /\ connected /\ connection = "open" /\ client_socket = "connected"
    /\ pan_tilting /\ driver = "created"
    /\ reply.kind = "settings" /\ ~reply.accepted
    /\ Len(sent) = 1

(***************************************************************************)
(* C13: with no settings message pending, service_settings returns without *)
(* waiting (the call can always complete), sends no reply and leaves the   *)
(* snapshot, the camera and servo state and the connection state as they   *)
(* were.                                                                   *)
(***************************************************************************)
C13_EmptyPollIsNoOp ==
    /\ [](pc = "service" => ENABLED ServiceSettings)
    /\ [][ (pc = "service" /\ inbox.type = "none" /\ pc' # pc)
           => /\ pc' = "while"
              /\ UNCHANGED <<settings, cam, servo, driver, reply, replied, received,
                             result, inbox, connected, connection, client_socket,
                             wire, sent>> ]_vars

C13_Witness ==
    /\ pc = "while"
    /\ connected
    /\ Len(sent) = 2
    /\ received = 0 /\ replied = 0
    /\ inbox.type = "none"
    /\ reply.kind = "handshake"

(***************************************************************************)
(* C14: a send_image call either writes one whole frame, returns True and  *)
(* leaves the session Connected, or fails (capture, processing or write),  *)
(* returns False, sends no frame and leaves is_connected False.            *)
(***************************************************************************)
C14_SendFailureIsFatal ==
    [][ (pc = "send" /\ pc' = "service")
        => \/ /\ send_result' = "True"
              /\ connected'
              /\ \E p \in Payloads :
                    /\ sent' = Append(sent, p)
                    /\ wire' = wire \o Pack(Len(p)) \o p
           \/ /\ send_result' = "False"
              /\ ~connected'
              /\ sent' = sent ]_vars

C14_Witness ==
    /\ pc = "service"
    /\ send_result = "False"
    /\ ~connected
    /\ wire = <<>>
    /\ connect_result = "True"

(***************************************************************************)
(* C15: connect leaves its wait only on the peer's contact message, which  *)
(* it answers with the current snapshot; the session is Connected (and     *)
(* connect returns True) exactly when the frame channel was then opened,   *)
(* and when opening it fails is_connected stays False.                     *)
(***************************************************************************)
C15_HandshakeThenConnected ==
    [][ /\ (pc = "wait" /\ pc' # pc)
           => /\ inbox.type = "contact"
              /\ reply' = HandshakeReply(settings)
              /\ connected' <=> (client_socket' = "connected" /\ connection' = "open")
              /\ connected' <=> connect_result' = "True"
              /\ connected' <=> pc' = "while"
        /\ (~connected /\ connected') => pc = "wait" ]_vars

C15_Witness ==
    /\ pc = "while"
    /\ connected
    /\ connect_result = "True"
    /\ reply = HandshakeReply(settings)
    /\ client_socket = "connected" /\ connection = "open"

(***************************************************************************)
(* C16: when connect has returned False the session is as it was           *)
(* constructed: not connected, no frame socket, no driver, nothing pushed  *)
(* to the camera or servos, the snapshot unchanged, nothing received or    *)
(* sent on the discovery channel; a retry starts from the first call's     *)
(* state.                                                                  *)
(***************************************************************************)
C16_TimeoutChangesNothing ==
    (pc = "connect" /\ connect_result = "False")
    => /\ ~connected
       /\ client_socket = "None" /\ connection = "None"
       /\ driver = "None" /\ servo = InitServo
       /\ cam = InitCam
       /\ settings = InitSettings(pan_tilting)
       /\ inbox = NoMsg /\ reply = NoReply
       /\ wire = <<>> /\ sent = <<>>
       /\ received = 0 /\ replied = 0

C16_Witness ==
    /\ pc = "connect"
    /\ connect_result = "False"
    /\ pan_tilting

\* What the camera and the servos were last given is what the snapshot says.
HardwareAgrees ==
    /\ \A i \in 1..Len(CamAttrs) : cam[CamAttrs[i]] = Pushed(settings, CamAttrs[i])
    /\ pan_tilting => /\ servo.pan = settings.servos.pan.value
                      /\ servo.tilt = settings.servos.tilt.value

(***************************************************************************)
(* C17: whenever a service_settings call that received a request has       *)
(* returned, the parameters last applied to the camera and, with pan/tilt  *)
(* enabled, to the servos equal the values of the current snapshot.        *)
(***************************************************************************)
C17_HardwareMatchesSnapshot == received > 0 => HardwareAgrees

(***************************************************************************)
(* C18: every snapshot handed to the peer, in the handshake reply and in   *)
(* each settings reply, is well-formed: every selected value is in its     *)
(* available list and every bounded value within its min/max.              *)
(***************************************************************************)
C18_RepliesWellFormed == reply.kind # "none" => WellFormed(reply.snapshot)

(***************************************************************************)
(* C19: while the session is Connected the frame channel holds complete    *)
(* frames only, one per frame sent; bytes that do not decode to a complete *)
(* frame are on the channel only after a send that failed, with the        *)
(* session Disconnected.                                                   *)
(***************************************************************************)
C19_NoDanglingFrame ==
    LET d == DecodeFrames(wire)
    IN  /\ connected => d.rest = <<>> /\ Len(d.frames) = Len(sent)
        /\ d.rest # <<>> => Disconnected /\ send_result = "False"

C19_Witness ==
    /\ Disconnected
    /\ send_result = "False"
    /\ Len(sent) = 1
    /\ DecodeFrames(wire).rest # <<>>
    /\ Len(DecodeFrames(wire).frames) = 1
====
